---- MODULE Spec2Model ----
(***************************************************************************)
(* ChairDataExtractor (src/chair_data_extraction.py): the line-sweep that  *)
(* reads an ASCII floor plan and tallies chairs per room.                  *)
(*                                                                         *)
(* Every method of the class is an operator over the object's fields       *)
(*   self = [line_length, status, new_status, chairs]                      *)
(* that yields the fields after the call, the exception the call raises    *)
(* ("none" when it returns) and what it returns.  Python lists and strings *)
(* are sequences (index k of the source is index k+1 here), a string is a  *)
(* sequence of one-character strings, the DataFrame `chairs` is a function *)
(* from row labels to records.                                             *)
(*                                                                         *)
(* Exceptions.  A PlanFormatError is named by the kind its message         *)
(* describes (the classified failures of the specification):               *)
(*   "InvalidCharacter" (l.72)      "RowWidthMismatch" (l.76)              *)
(*   "UnenclosedRoom" (l.162, 170, 277)                                    *)
(*   "ConflictingRoomNames" (l.223, 247)                                   *)
(*   "ChairsOutsideRoom" (l.270)    "DuplicateRoomName" (l.281)            *)
(* Every other exception keeps its Python name ("re.error", "TypeError",   *)
(* "KeyError"); "Diverges" is a call that never returns.                   *)
(***************************************************************************)
EXTENDS Integers, Sequences, FiniteSets, TLC

VARIABLES
    pc,             \* "ready": before the call; "returned": after it; "reported": after get_loaded_chair_data
    op,             \* the method that was called
    file,           \* the plan file: a sequence of rows (without their line ends)
    line,           \* the argument `line` of the call
    section,        \* the argument `section` of the call, <<start, end>> (0-based, end exclusive)
    line_length,    \* self.line_length
    status,         \* self.status
    new_status,     \* self.new_status
    chairs,         \* self.chairs
    pre,            \* the object's fields when the call was made
    exc,            \* the exception the call raised, "none" if it returned
    room,           \* the room a call returned (_map_section_to_room, _create_new_room)
    found_sections, \* the list _detect_room_sections returned
    loaded          \* what get_loaded_chair_data did: [exc, returned, data]

vars == <<pc, op, file, line, section, line_length, status, new_status, chairs,
          pre, exc, room, found_sections, loaded>>

-----------------------------------------------------------------------------
(* Bounds of the model *)

\* the longest interior of a room section (a row is two walls wider)
MaxInterior == 2

\* the width of the interior of a plan of the scan
PlanInterior == 3

-----------------------------------------------------------------------------
(* Python values *)

\* None, as an entry of status / new_status and as a room
None == -2

\* the float nan that Index.max() yields on an index without a number
NaN == -3

\* the value None in the column 'room' of chairs: a room without a name
NoName == <<>>

\* the line end that readline() keeps
NL == "\n"

Min(a, b) == IF a < b THEN a ELSE b

SetMax(S) == CHOOSE m \in S : \A x \in S : x <= m

\* s[a:b] for 0 <= a
PySlice(s, a, b) == SubSeq(s, a + 1, Min(b, Len(s)))

\* s[a:b] = [v for k in s[a:b]]
PySliceFill(s, a, b, v) ==
    [k \in 1..Len(s) |-> IF a + 1 <= k /\ k <= Min(b, Len(s)) THEN v ELSE s[k]]

\* str.count(c) for a one-character c
CountChar(s, c) == Cardinality({k \in 1..Len(s) : s[k] = c})

\* ' ' * n
Blanks(n) == [k \in 1..n |-> " "]

Range(s) == {s[k] : k \in 1..Len(s)}

-----------------------------------------------------------------------------
(* Module constants *)

CHAIR_TYPES == <<"W", "P", "S", "C">>

\* '|\/+' is the four characters | \ / +  (the backslash does not escape the slash in a Python string)
VERTICAL_WALL_SYMBOLS == {"|", "\\", "/", "+"}

HORIZONTAL_WALL_SYMBOLS == {"-"}

WALL_SYMBOLS == VERTICAL_WALL_SYMBOLS \cup HORIZONTAL_WALL_SYMBOLS

LowerCase == {"a", "b", "k"}

ClassifiedFailures ==
    {"InvalidCharacter", "RowWidthMismatch", "UnenclosedRoom",
     "ConflictingRoomNames", "ChairsOutsideRoom", "DuplicateRoomName"}

-----------------------------------------------------------------------------
(* The outcome of a call *)

Self == [line_length |-> line_length, status |-> status,
         new_status |-> new_status, chairs |-> chairs]

EmptyChairs == [r \in {} |-> [room |-> NoName, W |-> 0, P |-> 0, S |-> 0, C |-> 0]]

Returns(self) ==
    [self |-> self, exc |-> "none", room |-> None, found |-> <<>>]

Raises(self, e) ==
    [self |-> self, exc |-> e, room |-> None, found |-> <<>>]

ReturnsRoom(self, r) ==
    [self |-> self, exc |-> "none", room |-> r, found |-> <<>>]
-----------------------------------------------------------------------------
(* _check_validity, l.53-76 *)

\* code points of the characters that bound a range of the character class
Ord(c) ==
    CASE c = " " -> 32
      [] c = "+" -> 43
      [] c = "a" -> 97
      [] c = "z" -> 122

\* valid_pattern is '[|\/+- a-z()PWSC]+$'.  In the class, \/ is an escaped
\* slash, so "+- " is read as the range from "+" to " " and "a-z" as the range
\* from "a" to "z"; re.compile raises re.error ("bad character range") for a
\* range whose first code point is above its last.
ClassRanges == {<<"+", " ">>, <<"a", "z">>}

PatternCompiles == \A r \in ClassRanges : Ord(r[1]) <= Ord(r[2])

\* the characters the class would accept: the single ones, and the lowercase
\* range (the range "+- " holds none: it is the one that does not compile)
ClassChars == {"|", "/", "(", ")", "P", "W", "S", "C"} \cup LowerCase

\* re.match('[...]+$', line): one or more class characters from the start, up
\* to the end of the string or to the line end that closes it
PatternMatches(ln) ==
    LET n == IF Len(ln) > 0 /\ ln[Len(ln)] = NL THEN Len(ln) - 1 ELSE Len(ln)
    IN  /\ n >= 1
        /\ \A k \in 1..n : ln[k] \in ClassChars

_check_validity(self, ln) ==
    IF ~PatternCompiles THEN Raises(self, "re.error")                       \* l.71
    ELSE IF ~PatternMatches(ln) THEN Raises(self, "InvalidCharacter")     \* l.72
    ELSE IF Len(ln) # self.line_length THEN Raises(self, "RowWidthMismatch") \* l.76
    ELSE Returns(self)

-----------------------------------------------------------------------------
(* _detect_room_sections, l.99-113 *)

\* [|+/\-] : in a class, \- is the hyphen; the backslash itself is not in it
SectionWall == {"|", "+", "/", "-"}

\* [^[|+/\-] : anything but these five characters
SectionExcluded == {"[", "|", "+", "/", "-"}

\* room_section_pattern is '[|+/\-][^[|+/\-]]+[|+/\-]': the negated class ends
\* at the first "]", so the pattern is: a wall, ONE character outside
\* SectionExcluded, one or more "]", a wall.  The spans <<start, end>> (0-based,
\* end exclusive) where it matches:
SectionMatches(ln) ==
    {sp \in (0..Len(ln)) \X (0..Len(ln)) :
        LET i == sp[1] + 1
            j == sp[2]
        IN  /\ i + 3 <= j
            /\ ln[i] \in SectionWall
            /\ ln[i + 1] \notin SectionExcluded
            /\ \A k \in (i + 2)..(j - 1) : ln[k] = "]"
            /\ ln[j] \in SectionWall}

\* re.search: the leftmost match
SectionSearch(ln) ==
    CHOOSE sp \in SectionMatches(ln) :
        \A other \in SectionMatches(ln) : sp[1] <= other[1]

\* The function as defined (it takes `line` only).  l.110 searches once; the
\* loop of l.111-112 appends the same span and never searches again, so with a
\* match the call never returns.
_detect_room_sections(ln) ==
    IF SectionMatches(ln) = {}
    THEN [exc |-> "none", found |-> <<>>]
    ELSE [exc |-> "Diverges", found |-> <<SectionSearch(ln)>>]

\* The call of l.90, self._detect_room_sections(line): the method is defined
\* without `self` (l.99), so the bound call passes two arguments to a function
\* of one and raises TypeError.
BoundDetectRoomSections(self, ln) == Raises(self, "TypeError")

-----------------------------------------------------------------------------
(* _process_line, l.78-97 *)

\* l.89 iterates `for char in len(self.status)`: an int is not iterable, so
\* the first statement raises TypeError and nothing is assigned.
_process_line(self, ln) == Raises(self, "TypeError")

-----------------------------------------------------------------------------
(* _create_new_room, l.191-201 *)

DefaultRoom == [room |-> NoName, W |-> 0, P |-> 0, S |-> 0, C |-> 0]

\* self.chairs.index.max(): nan for an index that holds no number
IndexMax(ch) ==
    IF DOMAIN ch \subseteq {NaN} THEN NaN ELSE SetMax(DOMAIN ch \ {NaN})

\* x + 1 in float arithmetic with nan
PlusOne(x) == IF x = NaN THEN NaN ELSE x + 1

\* chairs.loc[k, :] = v : the row k is overwritten, or appended when new
LocSet(ch, k, v) == [x \in DOMAIN ch \cup {k} |-> IF x = k THEN v ELSE ch[x]]

_create_new_room(self) ==
    LET room_idx == PlusOne(IndexMax(self.chairs))                      \* l.198
    IN  ReturnsRoom([self EXCEPT !.chairs = LocSet(@, room_idx, DefaultRoom)], \* l.200
                    room_idx)

-----------------------------------------------------------------------------
(* _join_rooms, l.203-224 *)

\* `rooms` is the set built at l.146; l.209 subscripts it (rooms[0]): a set is
\* not subscriptable, TypeError.
_join_rooms(self, rooms) == Raises(self, "TypeError")

-----------------------------------------------------------------------------
(* _map_section_to_room, l.116-189 *)

\* _map_section_to_room without the branch of l.163-170: a section that is
\* partly Unassigned above is resolved by the rooms it touches
MapSectionWithoutMixedCheck(self, sec, ln) ==
    LET a == sec[1] + 1
        b == sec[2]
        line_segment == PySlice(ln, a, b)
        segment_status == PySlice(self.status, a, b)
        distinct_mapped_rooms == Range(segment_status) \ {-1}
        rooms == distinct_mapped_rooms \ {None}
        Assign(r) ==
            [r EXCEPT !.self.new_status = PySliceFill(@, a, b, r.room)]
    IN  IF distinct_mapped_rooms = {None}
        THEN IF ln = Blanks(Len(line_segment))
             THEN Assign(ReturnsRoom(self, None))
             ELSE Raises(self, "UnenclosedRoom")
        ELSE IF Cardinality(rooms) = 0
        THEN Assign(_create_new_room(self))
        ELSE IF Cardinality(rooms) = 1
        THEN Raises(self, "TypeError")
        ELSE _join_rooms(self, rooms)

_map_section_to_room(self, sec, ln) ==
    LET a == sec[1] + 1                                                 \* l.141
        b == sec[2]
        line_segment == PySlice(ln, a, b)                               \* l.142
        segment_status == PySlice(self.status, a, b)                    \* l.145
        distinct_mapped_rooms == Range(segment_status) \ {-1}           \* l.146
        Assign(r) ==                                                    \* l.188-189
            [r EXCEPT !.self.new_status = PySliceFill(@, a, b, r.room)]
    IN  IF distinct_mapped_rooms = {None}                               \* l.148
        THEN IF ln = Blanks(Len(line_segment))                          \* l.149
             THEN Assign(ReturnsRoom(self, None))                       \* l.151
             ELSE Raises(self, "UnenclosedRoom")                        \* l.162
        ELSE IF None \in distinct_mapped_rooms                          \* l.163
        THEN Raises(self, "UnenclosedRoom")                             \* l.170
        ELSE IF Cardinality(distinct_mapped_rooms) = 0                  \* l.171
        THEN Assign(_create_new_room(self))                             \* l.174
        ELSE IF Cardinality(distinct_mapped_rooms) = 1                  \* l.175
        THEN Raises(self, "TypeError")                                  \* l.177: set[0]
        ELSE _join_rooms(self, distinct_mapped_rooms)                   \* l.187

-----------------------------------------------------------------------------
(* _update_room_name_and_chairs, l.226-250 *)

\* re.search('([a-z ]+)', s) finds a match iff s holds a lowercase letter or a blank
NameSearch(s) == \E k \in 1..Len(s) : s[k] \in LowerCase \cup {" "}

\* Series += list, over CHAIR_TYPES
AddCounts(rec, s) ==
    [rec EXCEPT !.W = @ + CountChar(s, "W"), !.P = @ + CountChar(s, "P"),
                !.S = @ + CountChar(s, "S"), !.C = @ + CountChar(s, "C")]

_update_room_name_and_chairs(self, sec, ln, rm) ==
    LET segment_string == PySlice(ln, sec[1] + 1, sec[2])               \* l.235-236
    IN  IF rm \notin DOMAIN self.chairs
        THEN Raises(self, "KeyError")                                   \* .loc[room, ...]
        ELSE IF NameSearch(segment_string)                              \* l.239-240
        THEN IF self.chairs[rm].room = NoName                           \* l.241
             \* l.242: Match.string is the whole searched string, not the match;
             \* l.244: str.replace returns a copy, segment_string is unchanged
             THEN Returns([self EXCEPT
                      !.chairs[rm] = AddCounts([@ EXCEPT !.room = segment_string],
                                               segment_string)])          \* l.243, 250
             ELSE Raises(self, "ConflictingRoomNames")                  \* l.247
        ELSE Returns([self EXCEPT
                      !.chairs[rm] = AddCounts(@, segment_string)])     \* l.250

-----------------------------------------------------------------------------
(* _perform_final_validation, l.252-281; get_loaded_chair_data, l.45-51 *)

\* the columns of chairs (l.32)
Columns == {"room"} \cup Range(CHAIR_TYPES)

\* l.268 reads self.chairs['name']: chairs has no column 'name', KeyError
_perform_final_validation(self) ==
    IF "name" \notin Columns THEN Raises(self, "KeyError") ELSE Returns(self)

\* the rows of a frame, in index order, for a frame indexed by numbers
Rows(ch) ==
    LET RECURSIVE Upto(_)
        Upto(S) == IF S = {} THEN <<>>
                   ELSE LET m == SetMax(S) IN Append(Upto(S \ {m}), ch[m])
    IN  Upto(DOMAIN ch)

\* get_loaded_chair_data indexing by the column chairs has, 'room': the frame
\* is returned as it stands
LoadedByRoomColumn(self) ==
    [exc |-> "none", returned |-> TRUE, data |-> Rows(self.chairs)]

\* l.51, self.chairs.set_index('name'): KeyError for the same reason
get_loaded_chair_data(self) ==
    IF "name" \notin Columns
    THEN [exc |-> "KeyError", returned |-> FALSE, data |-> <<>>]
    ELSE [exc |-> "none", returned |-> TRUE, data |-> Rows(self.chairs)]

-----------------------------------------------------------------------------
(* extract_data_from_file, l.26-43 *)

\* how often the loop of l.39 may come round before the model calls it divergent
MaxIterations == 2

\* f.readline() on the freshly opened file: the first row with its line end,
\* '' for an empty file
ReadLine(f) == IF f = <<>> THEN <<>> ELSE Append(f[1], NL)

\* l.39-43: `line` is read once (l.35) and never again, so every round of the
\* loop works on the first row
RECURSIVE ScanLoop(_, _, _)
ScanLoop(self, ln, fuel) ==
    IF ln = <<>> THEN _perform_final_validation(self)                   \* l.43
    ELSE LET v == _check_validity(self, ln)                             \* l.40
         IN  IF v.exc # "none" THEN v
             ELSE LET p == _process_line(v.self, ln)                    \* l.41
                  IN  IF p.exc # "none" THEN p
                      ELSE IF fuel = 0 THEN Raises(p.self, "Diverges")
                      ELSE ScanLoop(p.self, ln, fuel - 1)

\* extract_data_from_file without l.32: the registry of an earlier scan stays
ExtractKeepingRegistry(self, f) ==
    LET ln == ReadLine(f)
    IN  ScanLoop([self EXCEPT !.line_length = Len(ln),
                              !.status = [k \in 1..Len(ln) |-> None]],
                 ln, MaxIterations)

extract_data_from_file(self, f) ==
    LET ln == ReadLine(f)                                               \* l.35
    IN  ScanLoop([self EXCEPT !.chairs = EmptyChairs,                   \* l.32
                              !.line_length = Len(ln),                  \* l.36
                              !.status = [k \in 1..Len(ln) |-> None]],  \* l.37
                 ln, MaxIterations)

-----------------------------------------------------------------------------
(* The calls, as steps of the state machine *)

NotLoaded == [exc |-> "none", returned |-> FALSE, data |-> <<>>]

\* a method is called on the object as it is and leaves it as `r` says
Call(name, rm, r) ==
    /\ pc = "ready"
    /\ pc' = "returned"
    /\ op' = name
    /\ pre' = [line_length |-> line_length, status |-> status,
               new_status |-> new_status, chairs |-> chairs, room |-> rm]
    /\ line_length' = r.self.line_length
    /\ status' = r.self.status
    /\ new_status' = r.self.new_status
    /\ chairs' = r.self.chairs
    /\ exc' = r.exc
    /\ room' = r.room
    /\ found_sections' = r.found
    /\ UNCHANGED <<file, line, section, loaded>>

ExtractDataFromFile ==
    Call("extract_data_from_file", None, extract_data_from_file(Self, file))

CheckValidity ==
    Call("_check_validity", None, _check_validity(Self, line))

ProcessLine ==
    Call("_process_line", None, _process_line(Self, line))

\* the function called with the row alone
DetectRoomSections ==
    LET d == _detect_room_sections(line)
    IN  Call("_detect_room_sections", None,
             [self |-> Self, exc |-> d.exc, room |-> None, found |-> d.found])

\* the call as _process_line makes it (l.90)
DetectRoomSectionsOfSelf ==
    Call("self._detect_room_sections", None, BoundDetectRoomSections(Self, line))

MapSectionToRoom ==
    Call("_map_section_to_room", None, _map_section_to_room(Self, section, line))

UpdateRoomNameAndChairs ==
    \E rm \in DOMAIN chairs :
        Call("_update_room_name_and_chairs", rm,
             _update_room_name_and_chairs(Self, section, line, rm))

CreateNewRoom ==
    Call("_create_new_room", None, _create_new_room(Self))

PerformFinalValidation ==
    Call("_perform_final_validation", None, _perform_final_validation(Self))

GetLoadedChairData ==
    /\ pc = "returned"
    /\ pc' = "reported"
    /\ loaded' = get_loaded_chair_data(Self)
    /\ UNCHANGED <<op, file, line, section, line_length, status, new_status,
                   chairs, pre, exc, room, found_sections>>

-----------------------------------------------------------------------------
(* The scan of a plan file: extract_data_from_file on a new extractor, then  *)
(* get_loaded_chair_data                                                     *)

Strings(chars, n) == [1..n -> chars]

\* what the interior of a plan row is drawn from
PlanChars == {" ", "k", "W", "|"}

\* a row of the plan's outer wall: +---+
WallRow == [k \in 1..(PlanInterior + 2) |->
                IF k = 1 \/ k = PlanInterior + 2 THEN "+" ELSE "-"]

\* an interior row between the outer walls: |...|
Wrap(t) == <<"|">> \o t \o <<"|">>

\* The plans: the empty file, and an enclosure of one or two interior rows,
\* with its bottom wall or without it
Plans ==
    {<<>>}
    \cup {<<WallRow, Wrap(u)>> \o bottom :
            u \in Strings(PlanChars, PlanInterior), bottom \in {<<>>, <<WallRow>>}}
    \cup {<<WallRow, Wrap(u), Wrap(l)>> \o bottom :
            u \in Strings(PlanChars, PlanInterior),
            l \in Strings(PlanChars, PlanInterior),
            bottom \in {<<>>, <<WallRow>>}}

NoCall ==
    /\ pc = "ready"
    /\ op = "none"
    /\ exc = "none"
    /\ room = None
    /\ found_sections = <<>>
    /\ loaded = NotLoaded
    /\ pre = [line_length |-> line_length, status |-> status,
              new_status |-> new_status, chairs |-> chairs, room |-> None]

\* a new ChairDataExtractor: the class sets no field (l.20-24); the fields
\* here hold the empty value until extract_data_from_file assigns them
Init ==
    /\ file \in Plans
    /\ line = <<>>
    /\ section = <<0, 0>>
    /\ line_length = 0
    /\ status = <<>>
    /\ new_status = <<>>
    /\ chairs = EmptyChairs
    /\ NoCall

Next == ExtractDataFromFile \/ GetLoadedChairData

Spec == Init /\ [][Next]_vars

-----------------------------------------------------------------------------
(* The functions of a row: _check_validity, _process_line and                *)
(* _detect_room_sections on rows of every shape                              *)

\* what a row is drawn from: walls, a blank, a name letter, a chair, and two
\* characters outside the plan grammar
RowChars == {"|", "\\", " ", "k", "W", "]", "#"}

InitRow ==
    /\ file = <<>>
    /\ \E t \in Strings(RowChars, MaxInterior + 2) : line = Append(t, NL)
    /\ section = <<0, 0>>
    /\ line_length \in {Len(line), Len(line) + 1}
    /\ status = [k \in 1..line_length |-> None]                       \* l.37
    /\ new_status = <<>>
    /\ chairs = EmptyChairs                                           \* l.32
    /\ NoCall

NextRow ==
    \/ CheckValidity
    \/ ProcessLine
    \/ DetectRoomSections
    \/ DetectRoomSectionsOfSelf

SpecRow == InitRow /\ [][NextRow]_vars

-----------------------------------------------------------------------------
(* The region resolver and the content extractor on one section of a row,    *)
(* from every status the row above can have left.  The scan itself stops in  *)
(* _check_validity on its first row (Spec), so these methods are called on   *)
(* the fields as the docstring of _process_line (l.80-84) describes them:    *)
(* status holds None, -1 or the label of a row of chairs for each column.    *)

\* what the interior of a section is drawn from
InteriorChars == {" ", "k", "W"}

\* a name as l.243 stores it: the text of a segment, up to and with the wall
\* that closes the section
StoredNames == {<<"k", "|">>}

\* chairs with n rooms, labelled 0..n-1, before any chair is counted
Registries(n, names) ==
    [0..(n - 1) -> {[DefaultRoom EXCEPT !.room = nm] : nm \in names}]

\* the status list of the row above: the column of the section's opening wall
\* was a wall, the columns the resolver reads (l.141-145) are anything, the
\* column of the line end was outside every room
StatusAbove(n, len) ==
    {st \in [1..len -> {None, -1} \cup (0..(n - 1))] :
        st[1] = -1 /\ st[len] = None}

\* new_status as l.89 means to start it: -1 under a wall symbol, else None
FreshStatus(ln) == [k \in 1..Len(ln) |-> IF ln[k] \in WALL_SYMBOLS THEN -1 ELSE None]

InitResolve ==
    /\ file = <<>>
    /\ \E m \in 0..MaxInterior : \E t \in Strings(InteriorChars, m) :
          /\ line = <<"|">> \o t \o <<"|", NL>>
          /\ section = <<0, m + 2>>
    /\ line_length = Len(line)
    /\ \E n \in 0..2 :
          /\ chairs \in Registries(n, {NoName} \cup StoredNames)
          /\ status \in StatusAbove(n, Len(line))
    /\ new_status = FreshStatus(line)
    /\ NoCall

NextResolve ==
    \/ MapSectionToRoom
    \/ CreateNewRoom
    \/ UpdateRoomNameAndChairs
    \/ GetLoadedChairData

SpecResolve == InitResolve /\ [][NextResolve]_vars

-----------------------------------------------------------------------------
(* The final validation, from every registry and last status (the fields as  *)
(* the docstrings describe them at the end of a scan)                        *)

\* chairs with n rooms, with or without a name and a chair
CountedRegistries(n) ==
    [0..(n - 1) -> {[DefaultRoom EXCEPT !.room = nm, !.W = w] :
                        nm \in {NoName, <<"k", "|">>, <<"b", "|">>}, w \in 0..1}]

InitFinal ==
    /\ file = <<>>
    /\ line = <<>>
    /\ section = <<0, 0>>
    /\ line_length = MaxInterior + 2
    /\ \E n \in 0..2 :
          /\ chairs \in CountedRegistries(n)
          /\ status \in [1..line_length -> {None, -1} \cup (0..(n - 1))]
    /\ new_status = <<>>                                              \* l.97
    /\ NoCall

NextFinal == PerformFinalValidation \/ GetLoadedChairData

SpecFinal == InitFinal /\ [][NextFinal]_vars

-----------------------------------------------------------------------------
(* Claims about the scan (Spec) *)

\* the fields of a new extractor
NewExtractor == [line_length |-> 0, status |-> <<>>, new_status |-> <<>>,
                 chairs |-> EmptyChairs]

\* the interior rows of a plan that starts with its top wall
InteriorRows(f) ==
    IF Len(f) >= 2 /\ f[Len(f)] = WallRow THEN SubSeq(f, 2, Len(f) - 1)
    ELSE SubSeq(f, 2, Len(f))

\* how often the character c stands in the plan
RECURSIVE PlanCount(_, _)
PlanCount(f, c) ==
    IF f = <<>> THEN 0 ELSE CountChar(f[1], c) + PlanCount(Tail(f), c)

\* the plan is closed by its bottom wall
Closed(f) == Len(f) >= 3 /\ f[Len(f)] = WallRow

\* text between the two outer walls of a row
Inner(row) == SubSeq(row, 2, Len(row) - 1)

\* one rectangular enclosure, no wall inside it, the name "k" once
SingleEnclosure(f) ==
    /\ Closed(f)
    /\ \A i \in 1..Len(InteriorRows(f)) : "|" \notin Range(Inner(InteriorRows(f)[i]))
    /\ PlanCount(f, "k") = 1

\* the one room named k with every W of the plan
RoomK(f) == [room |-> <<"k">>, W |-> PlanCount(f, "W"), P |-> 0, S |-> 0, C |-> 0]

\* C1: a plan that is one rectangular enclosure with one name and furniture
\* letters in it scans successfully, and the result is the one room of that
\* name (the lowercase run alone) with the count of each furniture letter.
C1_SingleEnclosureResult ==
    (pc = "reported" /\ SingleEnclosure(file))
        => /\ exc = "none"
           /\ loaded.returned
           /\ loaded.data = <<RoomK(file)>>

\* an enclosure of two interior rows whose upper row is cut in two by one wall
\* that the lower row does not continue; the name stands in the upper row
Partitioned(f) ==
    /\ Closed(f)
    /\ Len(f) = 4
    /\ \E j \in 2..(PlanInterior - 1) :
          \A k \in 1..PlanInterior : (Inner(f[2])[k] = "|") <=> (k = j)
    /\ "|" \notin Range(Inner(f[3]))
    /\ CountChar(f[2], "k") = 1
    /\ CountChar(f[3], "k") = 0

\* the plan with the partition replaced by blanks
Unpartitioned(f) ==
    [f EXCEPT ![2] = Wrap([k \in 1..PlanInterior |->
                             IF Inner(f[2])[k] = "|" THEN " " ELSE Inner(f[2])[k]])]

\* scan of a plan by a new extractor: the exception, and what is loaded after it
ScanOf(f) ==
    LET r == extract_data_from_file(NewExtractor, f)
    IN  [exc |-> r.exc, loaded |-> get_loaded_chair_data(r.self)]

\* C2: a plan whose upper rows are cut by a partition that ends lower down
\* scans to the same result as the plan without the partition: one room with
\* the furniture of both parts and the name one part carried.
C2_MergeEqualsUnpartitioned ==
    (pc = "reported" /\ Partitioned(file))
        => /\ exc = "none"
           /\ loaded.returned
           /\ loaded.data = <<RoomK(file)>>
           /\ ScanOf(Unpartitioned(file)) = [exc |-> exc, loaded |-> loaded]

\* C3: the scan of a finite plan ends with a result or with a classified
\* failure.
C3_ScanEndsClassified ==
    (pc # "ready" /\ op = "extract_data_from_file")
        => exc \in {"none"} \cup ClassifiedFailures

-----------------------------------------------------------------------------
(* Claims about the final validation (SpecFinal) *)

IsRoom(v) == v # None /\ v # -1

Validated == pc = "returned" /\ op = "_perform_final_validation"

\* the registry as it was holds a room without a name that has a chair
ChairsOutside(ch) ==
    \E r \in DOMAIN ch : ch[r].room = NoName /\ ch[r].W + ch[r].P + ch[r].S + ch[r].C > 0

\* the last status row still holds a room
OpenRegion(st) == \E k \in 1..Len(st) : IsRoom(st[k])

\* two rooms of the registry carry the same name
SharedName(ch) ==
    \E r1, r2 \in DOMAIN ch : r1 # r2 /\ ch[r1].room # NoName /\ ch[r1].room = ch[r2].room

\* C4: if a column of the status still holds a room after the last row, the
\* scan fails with UnenclosedRoom; when the validation passes, the status holds
\* walls and unassigned columns only.
C4_OpenRegionFails ==
    Validated
        => /\ OpenRegion(pre.status) => exc = "UnenclosedRoom"
           /\ exc = "none" => ~OpenRegion(status)

\* C5: at the final validation a room without a name is dropped without a
\* failure when it has no furniture, and fails the scan with ChairsOutsideRoom
\* when it has some; a room with a name is never dropped.
C5_AnonymousRooms ==
    (Validated /\ \E r \in DOMAIN pre.chairs : pre.chairs[r].room = NoName)
        => /\ ChairsOutside(pre.chairs) => exc = "ChairsOutsideRoom"
           /\ (~ChairsOutside(pre.chairs) /\ ~OpenRegion(pre.status) /\ ~SharedName(pre.chairs))
                 => /\ exc = "none"
                    /\ \A r \in DOMAIN pre.chairs :
                          (r \in DOMAIN chairs) <=> (pre.chairs[r].room # NoName)

\* C6: two closed enclosures with the same name fail the scan with
\* DuplicateRoomName; when the validation passes, the names that are kept are
\* pairwise distinct.
C6_DuplicateNameFails ==
    Validated
        => /\ (SharedName(pre.chairs) /\ ~ChairsOutside(pre.chairs) /\ ~OpenRegion(pre.status))
                 => exc = "DuplicateRoomName"
           /\ exc = "none" => ~SharedName(chairs)

-----------------------------------------------------------------------------
(* Claims about the section detector (SpecRow) *)

\* the characters of the plan grammar
GrammarChars ==
    WALL_SYMBOLS \cup {" ", "(", ")"} \cup LowerCase \cup Range(CHAIR_TYPES)

\* a row of the plan grammar, with its line end
ValidatedRow(ln) ==
    /\ Len(ln) >= 2
    /\ ln[Len(ln)] = NL
    /\ \A k \in 1..(Len(ln) - 1) : ln[k] \in GrammarChars

\* a list of ranges <<start, end>>, each from a wall to a wall with no wall
\* between, in order and without overlap
WellFormedSections(ln, secs) ==
    /\ \A i \in 1..Len(secs) :
          /\ 0 <= secs[i][1] /\ secs[i][1] + 2 <= secs[i][2] /\ secs[i][2] <= Len(ln)
          /\ ln[secs[i][1] + 1] \in WALL_SYMBOLS
          /\ ln[secs[i][2]] \in WALL_SYMBOLS
          /\ \A k \in (secs[i][1] + 2)..(secs[i][2] - 1) : ln[k] \notin WALL_SYMBOLS
    /\ \A i \in 1..(Len(secs) - 1) : secs[i][2] <= secs[i + 1][1]

\* C7: on a validated row the section detector returns a list of ranges
\* [start, end), each with a wall at start and at end-1 and none between, in
\* left-to-right order, each starting at or after the end of the one before.
C7_DetectorReturnsSections ==
    (pc = "returned"
     /\ op \in {"_detect_room_sections", "self._detect_room_sections"}
     /\ ValidatedRow(line))
        => /\ exc = "none"
           /\ WellFormedSections(line, found_sections)

-----------------------------------------------------------------------------
(* Claims about the region resolver (SpecResolve) *)

Resolved == pc # "ready" /\ op = "_map_section_to_room"

\* the columns strictly between the two walls of the section (as indices here)
InteriorColumns == (section[1] + 2)..(section[2] - 1)

InteriorText == SubSeq(line, section[1] + 2, section[2] - 1)

\* C8: a section whose interior was Unassigned on the row above is left
\* Unassigned, with no room made or changed and no failure, when its own
\* interior is blank; it fails with UnenclosedRoom when its interior holds
\* anything else.
C8_UnassignedSection ==
    (Resolved /\ InteriorColumns # {}
     /\ \A k \in InteriorColumns : pre.status[k] = None)
        => IF InteriorText = Blanks(Len(InteriorText))
           THEN /\ exc = "none"
                /\ room = None
                /\ chairs = pre.chairs
                /\ \A k \in InteriorColumns : new_status[k] = None
           ELSE exc = "UnenclosedRoom"

\* the interior of the section was partly Unassigned, partly a room, on the
\* row above
MixedAbove ==
    /\ \E k \in InteriorColumns : pre.status[k] = None
    /\ \E k \in InteriorColumns : IsRoom(pre.status[k])

\* C9: a section whose interior on the row above held an Unassigned column
\* and a column of a room fails with UnenclosedRoom, and no room is created,
\* continued or merged for it.
C9_MixedSectionFails ==
    (Resolved /\ MixedAbove)
        => /\ exc = "UnenclosedRoom"
           /\ room = None
           /\ chairs = pre.chairs
           /\ new_status = pre.new_status

C9_Witness ==
    /\ pc = "returned" /\ op = "_map_section_to_room"
    /\ MixedAbove
    /\ exc = "UnenclosedRoom"
    /\ DOMAIN chairs # {}

-----------------------------------------------------------------------------
(* Claims about the line validator (SpecRow) *)

\* C11: the validator accepts a row exactly when each of its characters is
\* a wall symbol (the backslash too), a blank, a lowercase letter, a furniture
\* code or a parenthesis, and its length is the established width; a rejected
\* row is a classified failure that leaves status and registry as they were.
C11_ValidatorAccepts ==
    (pc = "returned" /\ op = "_check_validity")
        => /\ (exc = "none") <=> (ValidatedRow(line) /\ Len(line) = pre.line_length)
           /\ exc \in {"none", "InvalidCharacter", "RowWidthMismatch"}
           /\ status = pre.status /\ chairs = pre.chairs

-----------------------------------------------------------------------------
(* A scan by an extractor that was used before: extract_data_from_file on    *)
(* the fields an earlier scan or earlier calls have left                     *)

\* the plans of one interior row, and the empty file
ShortPlans ==
    {<<>>}
    \cup {<<WallRow, Wrap(u)>> \o bottom :
            u \in Strings(PlanChars, PlanInterior), bottom \in {<<>>, <<WallRow>>}}

InitRerun ==
    /\ file \in ShortPlans
    /\ line = <<>>
    /\ section = <<0, 0>>
    /\ line_length = MaxInterior
    /\ \E n \in 0..2 :
          /\ chairs \in Registries(n, {NoName} \cup StoredNames)
          /\ status \in [1..line_length -> {None, -1} \cup (0..(n - 1))]
    /\ new_status = <<>>
    /\ NoCall

NextRerun == ExtractDataFromFile \/ GetLoadedChairData

SpecRerun == InitRerun /\ [][NextRerun]_vars

\* C12: a scan by an extractor that has scanned before ends as the scan of
\* the same plan by a new extractor does: the same outcome, from an empty
\* registry, an all-Unassigned status and the width of this plan, whatever
\* rooms, labels and status the earlier use has left.
C12_RerunAsFresh ==
    (pc # "ready" /\ op = "extract_data_from_file")
        => LET fresh == extract_data_from_file(NewExtractor, file)
           IN  /\ exc = fresh.exc
               /\ chairs = fresh.self.chairs
               /\ status = fresh.self.status
               /\ line_length = fresh.self.line_length
               /\ pc = "reported" => loaded = get_loaded_chair_data(fresh.self)

C12_Witness ==
    /\ pc = "reported" /\ op = "extract_data_from_file"
    /\ file # <<>>
    /\ DOMAIN pre.chairs # {}
    /\ \E k \in 1..Len(pre.status) : IsRoom(pre.status[k])
    /\ chairs = EmptyChairs
    /\ \A k \in 1..Len(status) : status[k] = None
    /\ line_length = Len(file[1]) + 1

-----------------------------------------------------------------------------
(* Claims about the status written by the resolver (SpecResolve) *)

\* C13: in the new status a column under a wall symbol holds Wall and never
\* a room, every column holds Wall, Unassigned or a room, and a room is
\* written only to the columns strictly between the two walls of the section
\* (the closing wall at end-1 is not overwritten).  (Stated for a
\* section with an interior and a registry that holds a room.)
C13_WallColumnsStayWall ==
    (Resolved /\ exc = "none" /\ InteriorColumns # {} /\ DOMAIN pre.chairs # {})
        => /\ Len(new_status) = Len(line)
           /\ \A k \in 1..Len(line) :
                 /\ line[k] \in WALL_SYMBOLS => new_status[k] = -1
                 /\ IsRoom(new_status[k]) => k \in InteriorColumns

\* the rooms in the interior of the section on the row above
RoomsAbove == {pre.status[k] : k \in InteriorColumns} \ {None, -1}

SetMin(S) == CHOOSE m \in S : \A x \in S : m <= x

\* the closing wall of the section stands under a wall of the row above
WallAboveClosingWall == pre.status[section[2]] = -1

RECURSIVE SumOver(_, _, _)
SumOver(ch, S, t) ==
    IF S = {} THEN 0
    ELSE LET r == CHOOSE x \in S : TRUE
         IN  ch[r][t] + SumOver(ch, S \ {r}, t)

\* C14: a section over two or more rooms merges them into the one with the
\* smallest label: that record gets the furniture of all of them, and the
\* others have no record of their own afterwards.
C14_MergeIntoSmallest ==
    (Resolved /\ Cardinality(RoomsAbove) >= 2 /\ WallAboveClosingWall
     /\ \A k \in InteriorColumns : pre.status[k] # None
     /\ Cardinality({r \in RoomsAbove : pre.chairs[r].room # NoName}) <= 1)
        => /\ exc = "none"
           /\ room = SetMin(RoomsAbove)
           /\ \A t \in Range(CHAIR_TYPES) :
                 chairs[room][t] = SumOver(pre.chairs, RoomsAbove, t)
           /\ DOMAIN chairs = DOMAIN pre.chairs \ (RoomsAbove \ {room})

\* C15: a section whose interior on the row above holds the label of one
\* room continues that room under its canonical label: the call returns it
\* and writes it to the interior of the section without touching the registry.
\* (The code keeps no alias of a merged room and no merge completes, C14, so
\* the canonical label of a room is the label itself.)
C15_ContinueCanonical ==
    (Resolved /\ WallAboveClosingWall /\ InteriorColumns # {}
     /\ \E r \in DOMAIN pre.chairs : \A k \in InteriorColumns : pre.status[k] = r)
        => /\ exc = "none"
           /\ \A k \in InteriorColumns :
                 room = pre.status[k] /\ new_status[k] = room
           /\ chairs = pre.chairs

-----------------------------------------------------------------------------
(* Claims about the content extractor (SpecResolve) *)

Updated == pc # "ready" /\ op = "_update_room_name_and_chairs"

\* C16: a section that continues a room which has its name, and that holds
\* no name text of its own (blanks and furniture codes only), leaves the name
\* as it is and does not fail.
C16_NameKept ==
    (Updated /\ pre.chairs[pre.room].room # NoName
     /\ Range(InteriorText) \cap LowerCase = {})
        => /\ exc = "none"
           /\ chairs[pre.room].room = pre.chairs[pre.room].room

-----------------------------------------------------------------------------
\* the counts of record r2 of registry c2 are those of record r1 of c1 plus
\* the occurrences of each furniture code in the text s
CountsAdded(c1, r1, c2, r2, s) ==
    \A i \in 1..Len(CHAIR_TYPES) :
        LET t == CHAIR_TYPES[i]
        IN  c2[r2][t] = c1[r1][t] + CountChar(s, t)

\* C17: a section with furniture in its interior that belongs to a room and
\* brings no name to a room that has one adds, for each furniture type, the
\* occurrences of the code in its interior text to the counts of that room,
\* and the call lowers no count of any room.
C17_CountsOnlyGrow ==
    (/\ Updated
     /\ \E i \in 1..Len(CHAIR_TYPES) : CountChar(InteriorText, CHAIR_TYPES[i]) > 0
     /\ pre.chairs[pre.room].room = NoName \/ Range(InteriorText) \cap LowerCase = {})
        => /\ exc = "none"
           /\ CountsAdded(pre.chairs, pre.room, chairs, pre.room, InteriorText)
           /\ \A r \in DOMAIN pre.chairs \ {pre.room} :
                 r \in DOMAIN chairs /\ CountsAdded(pre.chairs, r, chairs, r, <<>>)

Created == pc # "ready" /\ op = "_create_new_room"

\* C18: a creation returns an integer id above every id of the registry,
\* also on an empty registry, and appends the record of that id with no name
\* and zero counts, leaving every earlier record as it was.
C18_CreationIdsIncrease ==
    Created
        => /\ exc = "none"
           /\ room \in Nat
           /\ \A r \in DOMAIN pre.chairs : room > r
           /\ DOMAIN chairs = DOMAIN pre.chairs \cup {room}
           /\ chairs[room] = DefaultRoom
           /\ \A r \in DOMAIN pre.chairs : chairs[r] = pre.chairs[r]

\* the states of the row above over the interior of the section are all Wall
WallAboveInterior == \A k \in InteriorColumns : pre.status[k] = -1

-----------------------------------------------------------------------------
(* The counts of a successful scan (Spec) *)

ScanSucceeded ==
    pc = "reported" /\ op = "extract_data_from_file" /\ exc = "none" /\ loaded.returned

\* the sum of the counts of furniture type t over the rows of a result
RECURSIVE ResultSum(_, _)
ResultSum(rows, t) ==
    IF rows = <<>> THEN 0 ELSE rows[1][t] + ResultSum(Tail(rows), t)

\* C20: after a successful scan the counts of each furniture type over the
\* rooms of the result add up to the occurrences of its letter in the plan.
C20_EveryLetterCounted ==
    ScanSucceeded
        => \A i \in 1..Len(CHAIR_TYPES) :
              ResultSum(loaded.data, CHAIR_TYPES[i]) = PlanCount(file, CHAIR_TYPES[i])

\* no scan reaches the state C20 speaks of: each one ends with an exception
\* (C3), the scan of the empty file included
C20_NoScanSucceeds == ~ScanSucceeded

====
